---- MODULE Spec2Model ----
(***************************************************************************)
(* Model of src/ImageAlteration.py: the directory walk of process_images,  *)
(* the replace sequence of watermark_with_exif, rename_image, move_image,  *)
(* create_kml, and the two coordinate conversions (the watermark text and  *)
(* get_decimal_from_dms).                                                  *)
(*                                                                         *)
(* A directory is the sequence of names below the root (<<>> is the root). *)
(* A file name is [base, ext]: base is the sequence of the pieces that the *)
(* code joins with "_", ext is the extension without its dot.  A file's    *)
(* content is [orig, exif, wm, whole]: the path the image had in the       *)
(* initial tree, its EXIF tags, how many times it was watermarked, and     *)
(* whether the file was written completely.                                *)
(***************************************************************************)
EXTENDS Integers, Sequences, FiniteSets, TLC

VARIABLES fs, dirs, pc, run, wdir, files, stack, path, picked, date_taken,
          pre, fs0, kmlTodo, kmlLog, kmlDoc,
          dms, ref, axis, xerr, rerr, wmark, index

fsvars == <<fs, dirs, pc, run, wdir, files, stack, path, picked, date_taken,
            pre, fs0, kmlTodo, kmlLog, kmlDoc>>
dmsvars == <<dms, ref, axis, xerr, rerr, wmark, index>>
vars == <<fs, dirs, pc, run, wdir, files, stack, path, picked, date_taken,
          pre, fs0, kmlTodo, kmlLog, kmlDoc,
          dms, ref, axis, xerr, rerr, wmark, index>>

\* ---------------------------------------------------------------- bounds
MaxFiles == 2
MaxRuns == 2
MaxDeg == 1
MaxMin == 1
MaxSecH == 60

\* ------------------------------------------------------- paths and names
Root == <<>>
RootName == "root"

Name(b, e) == [base |-> b, ext |-> e]
Path(d, n) == [dir |-> d, name |-> n]
NoPath == Path(Root, Name(<<>>, ""))

\* str.lower() on the extensions that occur
Lower(e) ==
    CASE e = "JPG" -> "jpg"
      [] e = "JPEG" -> "jpeg"
      [] e = "PNG" -> "png"
      [] OTHER -> e

\* os.path.basename(directory)
Basename(d) == IF d = Root THEN RootName ELSE d[Len(d)]

\* the walker's filter, line 189
IsCandidate(n) == Lower(n.ext) = "jpg" \/ Lower(n.ext) = "jpeg"

\* create_kml's filter, line 207
IsKmlImage(n) == Lower(n.ext) = "jpg" \/ Lower(n.ext) = "png"

\* ------------------------------------------------------------- EXIF tags
Exif(p, g, l, t, mo, d) ==
    [present |-> p, has34853 |-> g, latlon |-> l, has306 |-> t, mo |-> mo, d |-> d]

ExifPool ==
    { Exif(FALSE, FALSE, FALSE, FALSE, 0, 0),   \* no EXIF at all
      Exif(TRUE, FALSE, FALSE, TRUE, 7, 4),     \* tag 34853 absent
      Exif(TRUE, TRUE, FALSE, TRUE, 7, 4),      \* GPS block without the triples
      Exif(TRUE, TRUE, TRUE, FALSE, 0, 0),      \* tag 306 absent
      Exif(TRUE, TRUE, TRUE, TRUE, 13, 4),      \* tag 306 does not parse
      Exif(TRUE, TRUE, TRUE, TRUE, 7, 4),       \* complete, 4 July
      Exif(TRUE, TRUE, TRUE, TRUE, 12, 25) }    \* complete, 25 December

\* get_geotagging raises ValueError
GeotaggingFails(e) == ~e.present \/ ~e.has34853 \/ ~e.latlon

\* datetime.strptime(date_str, '%Y:%m:%d %H:%M:%S') accepts the month and day
Parses(e) == e.mo \in 1..12 /\ e.d \in 1..31

\* get_date_taken raises ValueError
DateFails(e) == ~e.has306 \/ ~Parses(e)

Digit == <<"0", "1", "2", "3", "4", "5", "6", "7", "8", "9">>
TwoDigits(n) == Digit[(n \div 10) + 1] \o Digit[(n % 10) + 1]

\* the value watermark_with_exif returns: None, or the '%m/%d/%Y ...' string
\* of which only the characters [0:2] and [3:5] are used afterwards
None == [none |-> TRUE, mm |-> "", dd |-> ""]
get_date_taken(e) == [none |-> FALSE, mm |-> TwoDigits(e.mo), dd |-> TwoDigits(e.d)]

ExtractionFails(e) == ~e.present \/ GeotaggingFails(e) \/ DateFails(e)

\* f"{date_taken[:2]}{date_taken[3:5]}"
Folder(dt) == dt.mm \o dt.dd

\* ------------------------------------------------------------ file system
Content(o, e, w, c) == [orig |-> o, exif |-> e, wm |-> w, whole |-> c]

Exists(f, p) == p \in DOMAIN f
Remove(f, p) == [q \in DOMAIN f \ {p} |-> f[q]]
WriteFile(f, p, c) == (p :> c) @@ f
\* os.rename / shutil.move of a file onto a file path: the target is replaced
MoveFile(f, src, dst) == (dst :> f[src]) @@ Remove(f, src)

FilesIn(f, d) == {p.name : p \in {q \in DOMAIN f : q.dir = d}}
SubdirsOf(ds, d) == {s \in ds : Len(s) = Len(d) + 1 /\ SubSeq(s, 1, Len(d)) = d}

\* a plausible slip: the image is saved over the original
TempPathInPlace(fn) == fn

\* temp_fn = filename + "_temp" + file_extension, lines 128-129
TempPath(fn) == Path(fn.dir, Name(fn.name.base \o <<"temp">>, fn.name.ext))

\* a plausible slip: the folder name is left out of the new name
NewNameNoFolder(fn, dt) == Name(<<Folder(dt)>> \o fn.name.base, fn.name.ext)

\* new_name of rename_image, lines 146-150
NewName(fn, dt) ==
    Name(<<Folder(dt), Basename(fn.dir)>> \o fn.name.base, fn.name.ext)

\* the image after the overlay was drawn and saved with its exif
Watermarked(c) == Content(c.orig, c.exif, c.wm + 1, TRUE)
Partial(c) == Content(c.orig, c.exif, c.wm + 1, FALSE)

\* ----------------------------------------------------------- initial tree
InitPaths ==
    { Path(Root, Name(<<"a">>, "jpg")),
      Path(Root, Name(<<"a", "temp">>, "jpg")),
      Path(Root, Name(<<"b">>, "JPEG")),
      Path(Root, Name(<<"0704", "root", "a">>, "jpg")),
      Path(<<"A">>, Name(<<"a">>, "JPG")),
      Path(<<"0704">>, Name(<<"0704", "root", "a">>, "jpg")) }

InitTrees ==
    UNION { [ps -> ExifPool] : ps \in {s \in SUBSET InitPaths : Cardinality(s) <= MaxFiles} }

DmsIdle ==
    /\ dms = <<0, 0, 0>> /\ ref = "N" /\ axis = "lat" /\ xerr = 1 /\ rerr = 1
    /\ wmark = [done |-> FALSE, letter |-> "", mag |-> 0]
    /\ index = [done |-> FALSE, val |-> 0]

Init ==
    /\ \E t \in InitTrees, extra \in SUBSET {<<"0704">>} :
          /\ fs = [p \in DOMAIN t |-> Content(p, t[p], 0, TRUE)]
          /\ dirs = {Root} \cup {p.dir : p \in DOMAIN t} \cup extra
    /\ pc = "start"
    /\ run = 1
    /\ wdir = Root
    /\ files = {}
    /\ stack = <<>>
    /\ path = NoPath
    /\ picked = NoPath
    /\ date_taken = None
    /\ pre = fs
    /\ fs0 = fs
    /\ kmlTodo = {}
    /\ kmlLog = <<>>
    /\ kmlDoc = [d \in {} |-> {}]
    /\ DmsIdle

\* the file create_kml writes, lines 239-241, and what the walker sees of it
KmlPath(d) == Path(d, Name(<<Basename(d), "locations">>, "kml"))
KmlFile(d) == Content(KmlPath(d), Exif(FALSE, FALSE, FALSE, FALSE, 0, 0), 0, TRUE)

\* ------------------------------------------------------------- os.walk
RECURSIVE Prune(_)
\* a generator frame whose directories are all walked returns to its caller
Prune(s) == IF s # <<>> /\ Head(s) = {} THEN Prune(Tail(s)) ELSE s

\* a plausible slip: the index loop sits inside the walk loop
WalkFinishedEarly == files = {}

\* the for loop of line 187 is exhausted
WalkFinished == files = {} /\ stack = <<>>

\* process_images is called: os.walk lists the root directory
StartWalk ==
    /\ pc = "start"
    /\ wdir' = Root
    /\ files' = FilesIn(fs, Root)
    /\ stack' = Prune(<<SubdirsOf(dirs, Root)>>)
    /\ pc' = "walk"
    /\ UNCHANGED <<fs, dirs, run, path, picked, date_taken, pre, fs0,
                   kmlTodo, kmlLog, kmlDoc>>
    /\ UNCHANGED dmsvars

\* os.walk descends into the next directory it listed and lists it
NextDir ==
    /\ pc = "walk" /\ files = {} /\ stack # <<>>
    /\ \E d \in Head(stack) :
          /\ wdir' = d
          /\ files' = FilesIn(fs, d)
          /\ stack' = Prune(<<SubdirsOf(dirs, d), Head(stack) \ {d}>> \o Tail(stack))
    /\ UNCHANGED <<fs, dirs, pc, run, path, picked, date_taken, pre, fs0,
                   kmlTodo, kmlLog, kmlDoc>>
    /\ UNCHANGED dmsvars

\* for filename in files: the extension test of line 189
NextFile ==
    /\ pc = "walk" /\ files # {}
    /\ \E n \in files :
          /\ files' = files \ {n}
          /\ IF IsCandidate(n)
             THEN /\ path' = Path(wdir, n)
                  /\ picked' = Path(wdir, n)
                  /\ pre' = fs
                  /\ date_taken' = None
                  /\ pc' = "open"
             ELSE UNCHANGED <<path, picked, pre, date_taken, pc>>
    /\ UNCHANGED <<fs, dirs, run, wdir, stack, fs0, kmlTodo, kmlLog, kmlDoc>>
    /\ UNCHANGED dmsvars

\* ------------------------------------------------- watermark_with_exif
\* lines 57-72: Image.open raises when the listed file is gone; without
\* EXIF, geotag or date the function returns None
Open ==
    /\ pc = "open"
    /\ IF ~Exists(fs, path)
       THEN pc' = "aborted" /\ UNCHANGED date_taken
       ELSE IF ExtractionFails(fs[path].exif)
            THEN pc' = "rename_image" /\ date_taken' = None
            ELSE pc' = "save" /\ date_taken' = get_date_taken(fs[path].exif)
    /\ UNCHANGED <<fs, dirs, run, wdir, files, stack, path, picked, pre, fs0,
                   kmlTodo, kmlLog, kmlDoc>>
    /\ UNCHANGED dmsvars

\* line 130, img.save(temp_fn): the temp file is created and being written
SaveBegin ==
    /\ pc = "save"
    /\ fs' = WriteFile(fs, TempPath(path), Partial(pre[picked]))
    /\ pc' = "saving"
    /\ UNCHANGED <<dirs, run, wdir, files, stack, path, picked, date_taken, pre,
                   fs0, kmlTodo, kmlLog, kmlDoc>>
    /\ UNCHANGED dmsvars

\* line 130, img.save(temp_fn) returns: the temp file is complete
SaveEnd ==
    /\ pc = "saving"
    /\ fs' = WriteFile(fs, TempPath(path), Watermarked(pre[picked]))
    /\ pc' = "remove"
    /\ UNCHANGED <<dirs, run, wdir, files, stack, path, picked, date_taken, pre,
                   fs0, kmlTodo, kmlLog, kmlDoc>>
    /\ UNCHANGED dmsvars

\* line 136, os.remove(fn)
RemoveOrig ==
    /\ pc = "remove"
    /\ fs' = Remove(fs, path)
    /\ pc' = "rename_temp"
    /\ UNCHANGED <<dirs, run, wdir, files, stack, path, picked, date_taken, pre,
                   fs0, kmlTodo, kmlLog, kmlDoc>>
    /\ UNCHANGED dmsvars

\* line 137, os.rename(temp_fn, fn)
RenameTemp ==
    /\ pc = "rename_temp"
    /\ IF Exists(fs, TempPath(path))
       THEN fs' = MoveFile(fs, TempPath(path), path) /\ pc' = "rename_image"
       ELSE pc' = "aborted" /\ UNCHANGED fs
    /\ UNCHANGED <<dirs, run, wdir, files, stack, path, picked, date_taken, pre,
                   fs0, kmlTodo, kmlLog, kmlDoc>>
    /\ UNCHANGED dmsvars

\* the process is killed inside the replace sequence of lines 127-137
Crash ==
    /\ pc \in {"save", "saving", "remove", "rename_temp"}
    /\ pc' = "crashed"
    /\ UNCHANGED <<fs, dirs, run, wdir, files, stack, path, picked, date_taken,
                   pre, fs0, kmlTodo, kmlLog, kmlDoc>>
    /\ UNCHANGED dmsvars

\* ------------------------------------------------------- rename_image
RenameImage ==
    /\ pc = "rename_image"
    /\ IF date_taken.none
       THEN UNCHANGED <<fs, path>>
       ELSE LET new_path == Path(path.dir, NewName(path, date_taken))
            IN  fs' = MoveFile(fs, path, new_path) /\ path' = new_path
    /\ pc' = "move_image"
    /\ UNCHANGED <<dirs, run, wdir, files, stack, picked, date_taken, pre, fs0,
                   kmlTodo, kmlLog, kmlDoc>>
    /\ UNCHANGED dmsvars

\* --------------------------------------------------------- move_image
MoveImage ==
    /\ pc = "move_image"
    /\ IF date_taken.none
       THEN UNCHANGED <<fs, dirs, path>>
       ELSE LET new_folder_path == Root \o <<Folder(date_taken)>>
                new_path == Path(new_folder_path, path.name)
            IN  /\ dirs' = dirs \cup {new_folder_path}
                /\ fs' = MoveFile(fs, path, new_path)
                /\ path' = new_path
    /\ pc' = "walk"
    /\ UNCHANGED <<run, wdir, files, stack, picked, date_taken, pre, fs0,
                   kmlTodo, kmlLog, kmlDoc>>
    /\ UNCHANGED dmsvars

\* ------------------------------------------- the loop of lines 196-199
\* the subdirectories create_kml is called for
KmlSubdirs(ds) == SubdirsOf(ds, Root)

StartKml ==
    /\ pc = "walk" /\ WalkFinished
    /\ kmlTodo' = KmlSubdirs(dirs)
    /\ pc' = "kml"
    /\ UNCHANGED <<fs, dirs, run, wdir, files, stack, path, picked, date_taken,
                   pre, fs0, kmlLog, kmlDoc>>
    /\ UNCHANGED dmsvars

\* the placemarks create_kml builds for a folder, lines 206-234
Placemarks(f, d) ==
    { [name |-> n, image_path |-> Path(d, n)] :
        n \in {m \in FilesIn(f, d) :
                 IsKmlImage(m) /\ ~GeotaggingFails(f[Path(d, m)].exif)} }

CreateKml(d) ==
    /\ pc = "kml" /\ d \in kmlTodo
    /\ kmlDoc' = (d :> Placemarks(fs, d)) @@ kmlDoc
    /\ fs' = WriteFile(fs, KmlPath(d), KmlFile(d))
    /\ kmlLog' = Append(kmlLog, d)
    /\ kmlTodo' = kmlTodo \ {d}
    /\ UNCHANGED <<dirs, pc, run, wdir, files, stack, path, picked, date_taken,
                   pre, fs0>>
    /\ UNCHANGED dmsvars

\* process_images returns
Finish ==
    /\ pc = "kml" /\ kmlTodo = {}
    /\ pc' = "done"
    /\ UNCHANGED <<fs, dirs, run, wdir, files, stack, path, picked, date_taken,
                   pre, fs0, kmlTodo, kmlLog, kmlDoc>>
    /\ UNCHANGED dmsvars

\* the script is run again over the tree the previous run left
Rerun ==
    /\ pc = "done" /\ run < MaxRuns
    /\ run' = run + 1
    /\ pc' = "start"
    /\ fs0' = fs
    /\ pre' = fs
    /\ path' = NoPath
    /\ picked' = NoPath
    /\ date_taken' = None
    /\ kmlLog' = <<>>
    /\ UNCHANGED <<fs, dirs, wdir, files, stack, kmlTodo, kmlDoc>>
    /\ UNCHANGED dmsvars

Next ==
    \/ StartWalk
    \/ NextDir
    \/ NextFile
    \/ Open
    \/ SaveBegin
    \/ SaveEnd
    \/ RemoveOrig
    \/ RenameTemp
    \/ Crash
    \/ RenameImage
    \/ MoveImage
    \/ StartKml
    \/ \E d \in kmlTodo : CreateKml(d)
    \/ Finish
    \/ Rerun

Spec == Init /\ [][Next]_vars

\* ------------------------------------------------ coordinate conversions
\* A triple is <<degrees, minutes, seconds in hundredths>>; a decimal value
\* is kept as the integer value * 360000, which is exact for such triples.
\* Where a decimal rounding is an exact tie it is decided by the double's
\* representation error: err > 0 when the double lies above the decimal.

\* latitude = lat_deg + (lat_min / 60.0) + (lat_sec / 3600.0), lines 75-78
WatermarkDegrees(t) ==
    t[1] * 360000 + (t[2] * 360000) \div 60 + (t[3] * 3600) \div 3600

\* v / den rounded to the nearest integer
RoundTo(v, den, err) ==
    LET q == v \div den
        r == v % den
    IN  IF 2 * r < den THEN q
        ELSE IF 2 * r > den THEN q + 1
        ELSE IF err > 0 THEN q + 1 ELSE q

Abs(v) == IF v < 0 THEN -v ELSE v

\* "{:.4f}".format(x), lines 85-86, in units of 0.0001: x * 10000 / 360000
Format4(x, err) == RoundTo(x, 36, err)

\* the hemisphere letters of lines 81-82
Hemisphere(ax, r) ==
    IF ax = "lat" THEN (IF r = "N" THEN "N" ELSE "S")
                  ELSE (IF r = "E" THEN "E" ELSE "W")

\* a plausible slip in get_decimal_from_dms: seconds divided by 60
get_decimal_from_dms_sec60(t, r, err) ==
    LET degrees == t[1] * 360000
        minutes == (t[2] * 360000) \div 60
        seconds == (t[3] * 3600) \div 60
        m == RoundTo((degrees + minutes + seconds) * 5, 18, err)
    IN  IF r \in {"S", "W"} THEN -m ELSE m

\* a plausible slip in get_decimal_from_dms: only 'S' negates
get_decimal_from_dms_onlyS(t, r, err) ==
    LET degrees == t[1] * 360000
        minutes == (t[2] * 360000) \div 60
        seconds == (t[3] * 3600) \div 3600
        m == RoundTo((degrees + minutes + seconds) * 5, 18, err)
    IN  IF r = "S" THEN -m ELSE m

\* lines 168-178, in units of 0.00001: round(x, 5) is x * 100000 / 360000
\* rounded, and negating the three parts negates the rounded sum
get_decimal_from_dms(t, r, err) ==
    LET degrees == t[1] * 360000
        minutes == (t[2] * 360000) \div 60
        seconds == (t[3] * 3600) \div 3600
        m == RoundTo((degrees + minutes + seconds) * 5, 18, err)
    IN  IF r \in {"S", "W"} THEN -m ELSE m

\* round(v, 4) of a value given in units of 0.00001, in units of 0.0001
Round4(v, err) == RoundTo(v, 10, err)

RefPool == {"N", "S", "E", "W", "X"}

InitDms ==
    /\ dms \in (0..MaxDeg) \X (0..MaxMin) \X (0..MaxSecH)
    /\ ref \in RefPool
    /\ axis \in {"lat", "lon"}
    /\ xerr \in {-1, 1}
    /\ rerr \in {-1, 1}
    /\ wmark = [done |-> FALSE, letter |-> "", mag |-> 0]
    /\ index = [done |-> FALSE, val |-> 0]
    /\ fs = [p \in {} |-> 0] /\ dirs = {Root} /\ pc = "coord" /\ run = 1
    /\ wdir = Root /\ files = {} /\ stack = <<>> /\ path = NoPath
    /\ picked = NoPath /\ date_taken = None /\ pre = fs /\ fs0 = fs
    /\ kmlTodo = {} /\ kmlLog = <<>> /\ kmlDoc = [d \in {} |-> {}]

\* watermark_with_exif builds the location text, lines 74-89
WatermarkText ==
    /\ ~wmark.done
    /\ wmark' = [done |-> TRUE, letter |-> Hemisphere(axis, ref),
                 mag |-> Format4(WatermarkDegrees(dms), xerr)]
    /\ UNCHANGED <<dms, ref, axis, xerr, rerr, index>>
    /\ UNCHANGED fsvars

\* create_kml calls get_coordinates, lines 180-184
GetCoordinates ==
    /\ ~index.done
    /\ index' = [done |-> TRUE, val |-> get_decimal_from_dms(dms, ref, xerr)]
    /\ UNCHANGED <<dms, ref, axis, xerr, rerr, wmark>>
    /\ UNCHANGED fsvars

NextDms == WatermarkText \/ GetCoordinates

SpecDms == InitDms /\ [][NextDms]_vars

\* ================================================================ claims
ReplaceSteps == {"save", "saving", "remove", "rename_temp"}
Idle == pc \in {"walk", "kml", "done"}
Mmdd(e) == TwoDigits(e.mo) \o TwoDigits(e.d)
Count(log, d) == Cardinality({i \in DOMAIN log : log[i] = d})

C2_FailedUntouched ==
    pc = "done" =>
        \A p \in DOMAIN fs0 :
            (IsCandidate(p.name) /\ ExtractionFails(fs0[p].exif)) =>
                Exists(fs, p) /\ fs[p] = fs0[p]

\* C3 as stated: a file a previous run left at <root>/<MMDD>/<MMDD>_<name><ext>
\* is at the same path, in the same folder and under the same name, when the
\* next run has ended.
C3_RerunStable ==
    (run >= 2 /\ pc = "done") =>
        \A p \in DOMAIN fs0 :
            ( /\ IsCandidate(p.name) /\ ~ExtractionFails(fs0[p].exif)
              /\ p.dir = <<Mmdd(fs0[p].exif)>>
              /\ p.name.base # <<>> /\ Head(p.name.base) = Mmdd(fs0[p].exif) ) =>
                Exists(fs, p) /\ fs[p].orig = fs0[p].orig

\* C4 as stated: when the run has ended, the index of every output folder has
\* exactly the placemarks of the folder's .jpg/.jpeg files whose coordinates
\* can be extracted, each referring to the path the file is at.
C4_IndexComplete ==
    pc = "done" =>
        \A d \in SubdirsOf(dirs, Root) :
            /\ d \in DOMAIN kmlDoc
            /\ kmlDoc[d] =
                 { [name |-> n, image_path |-> Path(d, n)] :
                     n \in {m \in FilesIn(fs, d) :
                              IsCandidate(m) /\ ~GeotaggingFails(fs[Path(d, m)].exif)} }

\* C5: at every step of the replace sequence, and after a crash inside it, a
\* file that exists at the canonical path fn is the complete original image
\* or the complete watermarked image.
C5_CanonicalComplete ==
    (pc \in ReplaceSteps \cup {"rename_image", "crashed"} /\ Exists(fs, path)) =>
        /\ fs[path].whole
        /\ fs[path] \in {pre[picked], Watermarked(pre[picked])}

C5_Witness ==
    /\ pc = "crashed"
    /\ Exists(fs, path) /\ fs[path] = pre[picked]
    /\ Exists(fs, TempPath(path)) /\ ~fs[TempPath(path)].whole

\* C6: create_kml is called only when the walk has finished and no image is
\* being processed; after the first create_kml call of a run no image file
\* and no directory changes; create_kml is never called twice for a folder
\* and, when the run ends, was called exactly once for every immediate
\* subdirectory of the root.
C6_IndexAfterMoves ==
    [][ /\ pc' \in {"kml", "done"} => (files' = {} /\ stack' = <<>>)
        /\ kmlLog # <<>> =>
              /\ dirs' = dirs
              /\ \A p \in DOMAIN fs : IsCandidate(p.name) =>
                                        (Exists(fs', p) /\ fs'[p] = fs[p])
              /\ \A p \in DOMAIN fs' : IsCandidate(p.name) => Exists(fs, p)
        /\ \A d \in dirs' : Count(kmlLog', d) <= 1
        /\ pc' = "done" =>
              \A d \in SubdirsOf(dirs', Root) : Count(kmlLog', d) = 1
      ]_vars

C6_Witness ==
    /\ pc = "done" /\ Len(kmlLog) = 2
    /\ \E p \in DOMAIN fs : fs[p].wm > 0 /\ p.dir = <<"0704">>

\* C7 as stated: the magnitude printed in the watermark equals the absolute
\* value of the index coordinate rounded again to 4 decimals.
C7_RoundTrip ==
    (wmark.done /\ index.done) => wmark.mag = Round4(Abs(index.val), rerr)

\* C7 amended: the printed magnitude and the absolute value of the index
\* coordinate rounded again to 4 decimals differ by at most 0.0001, and they
\* are equal whenever the fifth decimal of the index coordinate is not 5.
C7_RoundTripWithinOne ==
    (wmark.done /\ index.done) =>
        LET r == Round4(Abs(index.val), rerr)
        IN  /\ Abs(wmark.mag - r) <= 1
            /\ Abs(index.val) % 10 # 5 => wmark.mag = r

C7_Witness ==
    /\ wmark.done /\ index.done
    /\ Abs(index.val) % 10 = 5
    /\ Abs(wmark.mag - Round4(Abs(index.val), rerr)) = 1

\* the watermark letter says south or west
ShowsNegative == IF axis = "lat" THEN wmark.letter = "S" ELSE wmark.letter = "W"

\* C9 as stated: for every reference value and nonzero coordinate, the
\* watermark shows S (W) if and only if the index coordinate is negative.
C9_LetterMatchesSign ==
    (wmark.done /\ index.done /\ index.val # 0) =>
        (ShowsNegative <=> index.val < 0)

\* C9 amended: for every nonzero coordinate the watermark letter agrees with
\* the sign of the index coordinate exactly when the reference value is N, S
\* or W for a latitude and E, S or W for a longitude; for any other value the
\* watermark shows S (W) and the index coordinate is positive.
C9_LetterMatchesSignForKnownRef ==
    (wmark.done /\ index.done /\ index.val # 0) =>
        IF ref \in (IF axis = "lat" THEN {"N", "S", "W"} ELSE {"E", "S", "W"})
        THEN ShowsNegative <=> index.val < 0
        ELSE ShowsNegative /\ index.val > 0

C9_Witness ==
    /\ wmark.done /\ index.done
    /\ axis = "lon" /\ ref = "W" /\ wmark.letter = "W" /\ index.val < 0

\* C8 as stated: within one run no image is watermarked more than once.
C8_WatermarkedOncePerRun ==
    \A p \in DOMAIN fs : fs[p].whole => fs[p].wm <= run

\* C10 as stated: when the three steps on f have ended, every other file that
\* existed before them is at the same path with the same content.
C10_OthersUntouched ==
    (pc = "walk" /\ picked # NoPath) =>
        \A p \in DOMAIN pre \ {picked} : Exists(fs, p) /\ fs[p] = pre[p]

====
